---- MODULE Spec2Model ----
(***************************************************************************)
(* Supermarket dashboard core: SupermarketModel (model.py), the column     *)
(* store, and SupermarketView (view.py), the aggregate queries over it.    *)
(*                                                                         *)
(* Representation.                                                         *)
(*  - A text value (a CSV field, a cell of a text column) is a sequence of *)
(*    one-character strings, so that float(), int() and split('/') are     *)
(*    computed character by character.  The empty string is << >>.         *)
(*  - A column name is an atomic string: the code only compares names.     *)
(*  - A line of the file is the list that line.strip().split(',') yields.  *)
(*    lines[1] is the header (a sequence of column names); the other lines *)
(*    are sequences of text values.  Header names are pairwise distinct.   *)
(*  - A float is an integer number of tenths (fixed point, one decimal):   *)
(*    4.5 is 45.  Sums are exact.  NaN is the record NaN below.            *)
(*  - A numpy array is [dtype |-> "str" | "float", vals |-> sequence].     *)
(*  - A call that raises returns [exc |-> <exception name>].               *)
(***************************************************************************)
EXTENDS Integers, Sequences, FiniteSets, TLC

VARIABLES
    data,       \* SupermarketModel.data: column name -> numpy array
    headers,    \* SupermarketModel.headers
    row_count,  \* SupermarketModel.row_count
    lines,      \* the lines given to the last load_csv call
    loaded,     \* what the last load_csv call returned ("none" before any call)
    loads,      \* number of load_csv calls on this SupermarketModel object
    last        \* the last call made and what it returned

vars == <<data, headers, row_count, lines, loaded, loads, last>>

----------------------------------------------------------------------------
(* Generic sequence helpers *)

Range(s) == {s[i] : i \in DOMAIN s}

Min2(a, b) == IF a <= b THEN a ELSE b

RECURSIVE SumSeq(_)
SumSeq(s) == IF s = <<>> THEN 0 ELSE s[1] + SumSeq(Tail(s))

RECURSIVE SelectMask(_, _)
\* arr[mask] for a boolean mask of the same length
SelectMask(s, m) ==
    IF s = <<>> THEN <<>>
    ELSE IF m[1] THEN <<s[1]>> \o SelectMask(Tail(s), Tail(m))
         ELSE SelectMask(Tail(s), Tail(m))

Reverse(s) == [i \in 1..Len(s) |-> s[Len(s) + 1 - i]]

Take(s, n) == SubSeq(s, 1, Min2(n, Len(s)))

----------------------------------------------------------------------------
(* Text: code-point order, float(), int(), split('/') *)

\* the characters of the modelled inputs, in ascending code-point order
Chars == <<"+", "-", ".", "/", "0", "1", "2", "3", "4", "5", "6", "7", "8", "9",
           "A", "B", "C", "E", "F", "H", "M", "N", "S", "x">>

Ord(c) == CHOOSE i \in DOMAIN Chars : Chars[i] = c

Digits == {"0", "1", "2", "3", "4", "5", "6", "7", "8", "9"}

DigitVal(c) == Ord(c) - Ord("0")

RECURSIVE StrLess(_, _)
\* a < b for text, as numpy compares unicode arrays
StrLess(a, b) ==
    IF b = <<>> THEN FALSE
    ELSE IF a = <<>> THEN TRUE
    ELSE IF a[1] # b[1] THEN Ord(a[1]) < Ord(b[1])
    ELSE StrLess(Tail(a), Tail(b))

RECURSIVE DigitsVal(_)
\* the number a non-empty run of decimal digits denotes
DigitsVal(s) ==
    IF s = <<>> THEN 0 ELSE DigitsVal(SubSeq(s, 1, Len(s) - 1)) * 10 + DigitVal(s[Len(s)])

AllDigits(s) == \A i \in DOMAIN s : s[i] \in Digits

Unsigned(s) == IF s # <<>> /\ s[1] \in {"+", "-"} THEN Tail(s) ELSE s

Sign(s) == IF s # <<>> /\ s[1] = "-" THEN -1 ELSE 1

DotAt(s) == {i \in DOMAIN s : s[i] = "."}

\* float(val) does not raise: [sign] digits [. digits] with at least one digit
\* (exponents, inf, nan, underscores and blanks are not in Chars)
IsFloat(s) ==
    LET u == Unsigned(s)
    IN  /\ Cardinality(DotAt(u)) <= 1
        /\ \A i \in DOMAIN u : u[i] \in Digits \cup {"."}
        /\ \E i \in DOMAIN u : u[i] \in Digits

\* float(val) in tenths, for inputs with at most one fractional digit
FloatOf(s) ==
    LET u  == Unsigned(s)
        d  == IF DotAt(u) = {} THEN Len(u) + 1 ELSE CHOOSE i \in DotAt(u) : TRUE
        ip == SubSeq(u, 1, d - 1)
        fp == SubSeq(u, d + 1, Len(u))
    IN  Sign(s) * (DigitsVal(ip) * 10 + (IF fp = <<>> THEN 0 ELSE DigitVal(fp[1])))

\* int(x) does not raise: [sign] digits
IsInt(s) == Unsigned(s) # <<>> /\ AllDigits(Unsigned(s))

IntOf(s) == Sign(s) * DigitsVal(Unsigned(s))

RECURSIVE FirstToken(_)
\* date.split('/')[0]
FirstToken(s) ==
    IF s = <<>> \/ s[1] = "/" THEN <<>> ELSE <<s[1]>> \o FirstToken(Tail(s))

----------------------------------------------------------------------------
(* numpy *)

NaN == [nan |-> TRUE]

\* np.array(list): an empty list gives an empty float64 array
np_array(list) == [dtype |-> IF list = <<>> THEN "float" ELSE "str", vals |-> list]

\* np.array([]), the default of data.get(name, np.array([]))
EmptyArray == [dtype |-> "float", vals |-> <<>>]

np_sum(arr) == SumSeq(arr.vals)

\* faulty variant: the mean of an empty array is 0.0
np_mean_zero(arr) ==
    [nan |-> FALSE, num |-> SumSeq(arr.vals),
     den |-> IF arr.vals = <<>> THEN 1 ELSE Len(arr.vals)]

\* np.mean: nan (with a RuntimeWarning, no exception) on an empty array
np_mean(arr) ==
    IF arr.vals = <<>> THEN NaN
    ELSE [nan |-> FALSE, num |-> SumSeq(arr.vals), den |-> Len(arr.vals)]

\* np.max / np.min: ValueError on an empty array
np_max(arr) ==
    IF arr.vals = <<>> THEN [exc |-> "ValueError"]
    ELSE [exc |-> "none",
          v |-> CHOOSE x \in Range(arr.vals) : \A y \in Range(arr.vals) : y <= x]

np_min(arr) ==
    IF arr.vals = <<>> THEN [exc |-> "ValueError"]
    ELSE [exc |-> "none",
          v |-> CHOOSE x \in Range(arr.vals) : \A y \in Range(arr.vals) : x <= y]

\* arr != '' : elementwise on a text array.  On a float array the operands are
\* not comparable: numpy >= 1.25 gives an all-True array of arr's shape, older
\* numpy gives the scalar True (which broadcasts like a one-element array);
\* elementwise tells which numpy is installed.
NotEmptyMask(arr, elementwise) ==
    IF arr.dtype = "str" THEN [i \in 1..Len(arr.vals) |-> arr.vals[i] # <<>>]
    ELSE IF elementwise THEN [i \in 1..Len(arr.vals) |-> TRUE]
    ELSE <<TRUE>>

\* a & b on boolean arrays with numpy broadcasting; ValueError when the
\* shapes do not broadcast
MaskAnd(a, b) ==
    IF Len(a) = Len(b)
    THEN [exc |-> "none", v |-> [i \in 1..Len(a) |-> a[i] /\ b[i]]]
    ELSE IF Len(b) = 1
    THEN [exc |-> "none", v |-> [i \in 1..Len(a) |-> a[i] /\ b[1]]]
    ELSE IF Len(a) = 1
    THEN [exc |-> "none", v |-> [i \in 1..Len(b) |-> a[1] /\ b[i]]]
    ELSE [exc |-> "ValueError"]

CountTrue(m) == Cardinality({i \in DOMAIN m : m[i]})

\* x < y on the values of an array of the given dtype
ValLess(dtype, x, y) == IF dtype = "str" THEN StrLess(x, y) ELSE x < y

RECURSIVE SortedInsert(_, _, _)
\* insert x into the ascending duplicate-free sequence s
SortedInsert(dtype, s, x) ==
    IF s = <<>> THEN <<x>>
    ELSE IF s[1] = x THEN s
    ELSE IF ValLess(dtype, x, s[1]) THEN <<x>> \o s
    ELSE <<s[1]>> \o SortedInsert(dtype, Tail(s), x)

RECURSIVE UniqueSorted(_, _)
UniqueSorted(dtype, s) ==
    IF s = <<>> THEN <<>>
    ELSE SortedInsert(dtype, UniqueSorted(dtype, Tail(s)), s[1])

\* faulty variant: a value is listed once per occurrence
np_unique_per_row(arr) ==
    [dtype |-> arr.dtype,
     vals |-> LET RECURSIVE sort(_)
                  sort(u) == IF u = <<>> THEN <<>>
                             ELSE LET rest == sort(Tail(u))
                                      k == Cardinality({i \in DOMAIN rest :
                                               ValLess(arr.dtype, rest[i], u[1])})
                                  IN  SubSeq(rest, 1, k) \o <<u[1]>>
                                          \o SubSeq(rest, k + 1, Len(rest))
              IN  sort(arr.vals)]

\* np.unique: the distinct values, ascending
np_unique(arr) == [dtype |-> arr.dtype, vals |-> UniqueSorted(arr.dtype, arr.vals)]

RECURSIVE InsertIndex(_, _, _)
\* insert index i after every index whose key is <= keys[i] (stable)
InsertIndex(keys, s, i) ==
    IF s = <<>> THEN <<i>>
    ELSE IF keys[i] < keys[s[1]] THEN <<i>> \o s
    ELSE <<s[1]>> \o InsertIndex(keys, Tail(s), i)

RECURSIVE ArgsortUpTo(_, _)
ArgsortUpTo(keys, n) ==
    IF n = 0 THEN <<>> ELSE InsertIndex(keys, ArgsortUpTo(keys, n - 1), n)

\* np.argsort(keys): indices in ascending key order; on arrays this small
\* numpy's default sort is an insertion sort, which keeps equal keys in
\* index order
np_argsort(keys) == ArgsortUpTo(keys, Len(keys))

----------------------------------------------------------------------------
(* SupermarketModel (model.py) *)

\* faulty variant: Branch left out of the important columns
important_columns_no_branch == <<"Total", "Quantity", "Rating">>

important_columns == <<"Total", "Quantity", "Rating", "Branch">>

numeric_columns == {"Unit price", "Quantity", "Tax 5%", "Total", "cogs",
                    "gross margin percentage", "gross income", "Rating"}

Has(d, name) == name \in DOMAIN d

RECURSIVE ColumnOf(_, _, _)
\* the list load_csv builds for header name c: for every data row, for every
\* position i of c in the header, values[i] if the row has it, else ''
ColumnOf(c, hs, rows) ==
    IF rows = <<>> THEN <<>>
    ELSE LET row == rows[1]
             cell(i) == IF i <= Len(row) THEN row[i] ELSE <<>>
             pos == {i \in DOMAIN hs : hs[i] = c}
             RECURSIVE cells(_)
             cells(i) == IF i > Len(hs) THEN <<>>
                         ELSE IF i \in pos THEN <<cell(i)>> \o cells(i + 1)
                         ELSE cells(i + 1)
         IN  cells(1) \o ColumnOf(c, hs, Tail(rows))

\* self.data after the read loop and _convert_to_numpy: the header's columns
\* are replaced, every other key of self.data is left as it was
ReadColumns(d, ls) ==
    LET hs == ls[1]
    IN  [c \in DOMAIN d \cup Range(hs) |->
            IF c \in Range(hs) THEN np_array(ColumnOf(c, hs, Tail(ls))) ELSE d[c]]

\* faulty variant: a required column that is absent invalidates every row
ValidRows_absent_invalid(d, cols, acc, elementwise) ==
    IF \E i \in DOMAIN cols : ~Has(d, cols[i])
    THEN [exc |-> "none", v |-> [i \in DOMAIN acc |-> FALSE]]
    ELSE LET RECURSIVE fold(_, _)
             fold(cs, a) ==
                 IF cs = <<>> THEN [exc |-> "none", v |-> a]
                 ELSE LET r == MaskAnd(a, NotEmptyMask(d[cs[1]], elementwise))
                      IN  IF r.exc # "none" THEN r ELSE fold(Tail(cs), r.v)
         IN  fold(cols, acc)

RECURSIVE ValidRows(_, _, _, _)
\* the loop over important_columns of _clean_data, from mask acc on
ValidRows(d, cols, acc, elementwise) ==
    IF cols = <<>> THEN [exc |-> "none", v |-> acc]
    ELSE IF ~Has(d, cols[1]) THEN ValidRows(d, Tail(cols), acc, elementwise)
    ELSE LET r == MaskAnd(acc, NotEmptyMask(d[cols[1]], elementwise))
         IN  IF r.exc # "none" THEN r
             ELSE ValidRows(d, Tail(cols), r.v, elementwise)

\* faulty variant: the result starts as np.ones, a failed conversion leaves 1.0
_safe_convert_to_float_ones(arr) ==
    [dtype |-> "float",
     vals  |-> [i \in 1..Len(arr.vals) |->
                  IF arr.dtype = "float" THEN arr.vals[i]
                  ELSE IF IsFloat(arr.vals[i]) THEN FloatOf(arr.vals[i]) ELSE 10]]

_safe_convert_to_float(arr) ==
    [dtype |-> "float",
     vals  |-> [i \in 1..Len(arr.vals) |->
                  IF arr.dtype = "float" THEN arr.vals[i]
                  ELSE IF IsFloat(arr.vals[i]) THEN FloatOf(arr.vals[i]) ELSE 0]]

ConvertNumeric(d) ==
    [c \in DOMAIN d |-> IF c \in numeric_columns THEN _safe_convert_to_float(d[c]) ELSE d[c]]

\* _clean_data on self.data = d, self.headers = hs, self.row_count = n
_clean_data(d, hs, n, elementwise) ==
    LET valid   == ValidRows(d, important_columns, [i \in 1..n |-> TRUE], elementwise)
        removed == n - CountTrue(valid.v)
    IN  IF valid.exc # "none" THEN [exc |-> valid.exc, data |-> d, row_count |-> n]
        ELSE IF removed > 0
        THEN IF \E h \in Range(hs) : Len(d[h].vals) # Len(valid.v)
             THEN \* boolean index did not match the indexed array
                  [exc |-> "IndexError", data |-> d, row_count |-> n]
             ELSE [exc |-> "none",
                   data |-> ConvertNumeric(
                       [c \in DOMAIN d |->
                           IF c \in Range(hs)
                           THEN [dtype |-> d[c].dtype, vals |-> SelectMask(d[c].vals, valid.v)]
                           ELSE d[c]]),
                   row_count |-> CountTrue(valid.v)]
        ELSE [exc |-> "none", data |-> ConvertNumeric(d), row_count |-> n]

\* load_csv on a store in state (d, hs, n): what it returns and the store after
load_csv(d, hs, n, ls, elementwise) ==
    IF ls = <<>>
    THEN \* lines[0] raises IndexError before anything is assigned
         [ret |-> FALSE, data |-> d, headers |-> hs, row_count |-> n]
    ELSE LET d1 == ReadColumns(d, ls)
             c  == _clean_data(d1, ls[1], Len(ls) - 1, elementwise)
         IN  [ret |-> c.exc = "none", data |-> c.data, headers |-> ls[1],
              row_count |-> c.row_count]

get_column(d, column_name) == IF Has(d, column_name) THEN d[column_name] ELSE EmptyArray

get_unique_values(d, column_name) == np_unique(get_column(d, column_name))

\* faulty variant: the mask also selects the rows of every smaller value
filter_by_value_upto(d, hs, column_name, value) ==
    IF ~Has(d, column_name) THEN [exc |-> "KeyError"]
    ELSE LET col  == d[column_name].vals
             mask == [i \in 1..Len(col) |->
                        col[i] = value \/ ValLess(d[column_name].dtype, col[i], value)]
         IN  IF \E h \in Range(hs) : Len(d[h].vals) # Len(mask)
             THEN [exc |-> "IndexError"]
             ELSE [exc |-> "none",
                   data |-> [h \in Range(hs) |->
                               [dtype |-> d[h].dtype, vals |-> SelectMask(d[h].vals, mask)]]]

\* filter_by_value: KeyError on an absent column, IndexError when the mask
\* does not have the length of a header column
filter_by_value(d, hs, column_name, value) ==
    IF ~Has(d, column_name) THEN [exc |-> "KeyError"]
    ELSE LET col  == d[column_name].vals
             mask == [i \in 1..Len(col) |-> col[i] = value]
         IN  IF \E h \in Range(hs) : Len(d[h].vals) # Len(mask)
             THEN [exc |-> "IndexError"]
             ELSE [exc |-> "none",
                   data |-> [h \in Range(hs) |->
                               [dtype |-> d[h].dtype, vals |-> SelectMask(d[h].vals, mask)]]]

get_summary(d, n) ==
    IF ~Has(d, "Total") \/ ~Has(d, "Rating") \/ ~Has(d, "Quantity")
    THEN [exc |-> "KeyError"]
    ELSE [exc |-> "none",
          total_rows     |-> n,
          total_sales    |-> np_sum(d["Total"]),
          average_rating |-> np_mean(d["Rating"]),
          total_quantity |-> np_sum(d["Quantity"]),
          branches       |-> Len(get_unique_values(d, "Branch").vals),
          cities         |-> Len(get_unique_values(d, "City").vals),
          product_lines  |-> Len(get_unique_values(d, "Product line").vals)]

----------------------------------------------------------------------------
(* SupermarketView (view.py) *)

\* one iteration of the grouping loops: filter the table by the label, then
\* np.sum(group['Total']); the filtered table holds the header's columns only
GroupTotal(d, hs, column_name, label) ==
    LET f == filter_by_value(d, hs, column_name, label)
    IN  IF f.exc # "none" THEN f
        ELSE IF ~Has(f.data, "Total") THEN [exc |-> "KeyError"]
        ELSE [exc |-> "none", total |-> np_sum(f.data["Total"]),
              count |-> Len(f.data["Total"].vals)]

\* get_sales_by_branch / _city / _product_line share this body, with the
\* grouping column as the only difference
SalesBy(d, hs, column_name) ==
    LET labels == get_unique_values(d, column_name).vals
        groups == [i \in 1..Len(labels) |-> GroupTotal(d, hs, column_name, labels[i])]
    IN  IF \E i \in DOMAIN groups : groups[i].exc # "none"
        THEN [exc |-> groups[CHOOSE i \in DOMAIN groups :
                                /\ groups[i].exc # "none"
                                /\ \A j \in 1..(i - 1) : groups[j].exc = "none"].exc]
        ELSE [exc |-> "none", labels |-> labels,
              sales |-> [i \in 1..Len(labels) |-> groups[i].total]]

get_sales_by_branch(d, hs) == SalesBy(d, hs, "Branch")

get_sales_by_city(d, hs) == SalesBy(d, hs, "City")

get_sales_by_product_line(d, hs) == SalesBy(d, hs, "Product line")

\* one iteration of get_payment_method_distribution's loop: filter the table
\* by the label, then len(group[column_name])
GroupCount(d, hs, column_name, label) ==
    LET f == filter_by_value(d, hs, column_name, label)
    IN  IF f.exc # "none" THEN f
        ELSE IF ~Has(f.data, column_name) THEN [exc |-> "KeyError"]
        ELSE [exc |-> "none", count |-> Len(f.data[column_name].vals)]

\* the exception of the first iteration that raises
FirstExc(groups) ==
    groups[CHOOSE i \in DOMAIN groups :
              /\ groups[i].exc # "none"
              /\ \A j \in 1..(i - 1) : groups[j].exc = "none"].exc

get_payment_method_distribution(d, hs) ==
    LET methods == get_unique_values(d, "Payment").vals
        groups  == [i \in 1..Len(methods) |-> GroupCount(d, hs, "Payment", methods[i])]
    IN  IF \E i \in DOMAIN groups : groups[i].exc # "none"
        THEN [exc |-> FirstExc(groups)]
        ELSE [exc |-> "none", methods |-> methods,
              counts |-> [i \in 1..Len(methods) |-> groups[i].count]]

\* get_customer_type_analysis and get_gender_analysis share this body, with
\* the grouping column as the only difference
AnalysisBy(d, hs, column_name) ==
    LET labels == get_unique_values(d, column_name).vals
        groups == [i \in 1..Len(labels) |-> GroupTotal(d, hs, column_name, labels[i])]
    IN  IF \E i \in DOMAIN groups : groups[i].exc # "none"
        THEN [exc |-> FirstExc(groups)]
        ELSE [exc |-> "none", labels |-> labels,
              sales  |-> [i \in 1..Len(labels) |-> groups[i].total],
              counts |-> [i \in 1..Len(labels) |-> groups[i].count]]

get_customer_type_analysis(d, hs) == AnalysisBy(d, hs, "Customer type")

get_gender_analysis(d, hs) == AnalysisBy(d, hs, "Gender")

\* np.arange(4.0, 10.5, 0.5) in tenths: 4.0, 4.5, ..., 10.0
bins == [i \in 1..13 |-> 40 + 5 * (i - 1)]

\* faulty variant: bins open on the left and closed on the right
InBin_left_open(r, i) == bins[i] < r /\ r <= bins[i + 1]

\* np.histogram(ratings, bins): bin i is [bins[i], bins[i+1]), except the last
\* bin, which is closed on the right
InBin(r, i) ==
    /\ bins[i] <= r
    /\ IF i = Len(bins) - 1 THEN r <= bins[i + 1] ELSE r < bins[i + 1]

get_rating_distribution(d) ==
    LET ratings == get_column(d, "Rating").vals
    IN  [exc |-> "none", bin_edges |-> bins,
         hist |-> [i \in 1..(Len(bins) - 1) |->
                     Cardinality({k \in DOMAIN ratings : InBin(ratings[k], i)})]]

month_map == [m \in {<<"1">>, <<"2">>, <<"3">>, <<"4">>, <<"5">>, <<"6">>, <<"7">>,
                     <<"8">>, <<"9">>, <<"1", "0">>, <<"1", "1">>, <<"1", "2">>} |->
    CASE m = <<"1">> -> "January"   [] m = <<"2">> -> "February"
      [] m = <<"3">> -> "March"     [] m = <<"4">> -> "April"
      [] m = <<"5">> -> "May"       [] m = <<"6">> -> "June"
      [] m = <<"7">> -> "July"      [] m = <<"8">> -> "August"
      [] m = <<"9">> -> "September" [] m = <<"1", "0">> -> "October"
      [] m = <<"1", "1">> -> "November" [] OTHER -> "December"]

\* month_map.get(m, m): a month name, or the key itself
MonthLabel(m) ==
    IF m \in DOMAIN month_map THEN [named |-> TRUE, name |-> month_map[m]]
    ELSE [named |-> FALSE, key |-> m]

KeyIndex(dict, k) == {i \in DOMAIN dict : dict[i].key = k}

RECURSIVE MonthlyLoop(_, _, _, _)
\* the loop of get_monthly_sales_trend from row i on; the dict is a sequence
\* of [key, value] in insertion order.  A new key is entered with 0 before
\* totals[i] is read, so an IndexError on totals[i] (swallowed by the bare
\* except) leaves the key in the dict
MonthlyLoop(dates, totals, i, dict) ==
    IF i > Len(dates) THEN dict
    ELSE LET month == FirstToken(dates[i])
             d1 == IF KeyIndex(dict, month) = {}
                   THEN Append(dict, [key |-> month, value |-> 0]) ELSE dict
             k  == CHOOSE j \in KeyIndex(d1, month) : TRUE
             d2 == IF i <= Len(totals)
                   THEN [d1 EXCEPT ![k].value = @ + totals[i]] ELSE d1
         IN  MonthlyLoop(dates, totals, i + 1, d2)

get_monthly_sales_trend(d) ==
    LET dates  == get_column(d, "Date").vals
        totals == get_column(d, "Total").vals
        dict   == MonthlyLoop(dates, totals, 1, <<>>)
    IN  IF \E i \in DOMAIN dict : ~IsInt(dict[i].key)
        THEN \* sorted(..., key=lambda x: int(x)) raises outside the try
             [exc |-> "ValueError"]
        ELSE LET order == np_argsort([i \in DOMAIN dict |-> IntOf(dict[i].key)])
             IN  [exc |-> "none",
                  month_names |-> [i \in DOMAIN order |-> MonthLabel(dict[order[i]].key)],
                  sales       |-> [i \in DOMAIN order |-> dict[order[i]].value]]

\* faulty variant: the [::-1] is missing, the order is ascending
get_top_products_ascending(d, hs, top_n) ==
    LET s == get_sales_by_product_line(d, hs)
    IN  IF s.exc # "none" THEN s
        ELSE LET top == Take(np_argsort(s.sales), top_n)
             IN  [exc |-> "none",
                  top_products |-> [i \in DOMAIN top |-> s.labels[top[i]]],
                  top_sales    |-> [i \in DOMAIN top |-> s.sales[top[i]]]]

get_top_products(d, hs, top_n) ==
    LET s == get_sales_by_product_line(d, hs)
    IN  IF s.exc # "none" THEN s
        ELSE LET sorted_indices == Reverse(np_argsort(s.sales))
                 top == Take(sorted_indices, top_n)
             IN  [exc |-> "none",
                  top_products |-> [i \in DOMAIN top |-> s.labels[top[i]]],
                  top_sales    |-> [i \in DOMAIN top |-> s.sales[top[i]]]]

get_kpis(d) ==
    LET totals     == get_column(d, "Total")
        quantities == get_column(d, "Quantity")
        ratings    == get_column(d, "Rating")
    IN  IF np_max(totals).exc # "none" THEN [exc |-> np_max(totals).exc]
        ELSE [exc |-> "none",
              total_revenue       |-> np_sum(totals),
              total_transactions  |-> Len(totals.vals),
              average_transaction |-> np_mean(totals),
              total_items_sold    |-> np_sum(quantities),
              average_rating      |-> np_mean(ratings),
              max_transaction     |-> np_max(totals).v,
              min_transaction     |-> np_min(totals).v]

----------------------------------------------------------------------------
(* Inputs *)

MaxRows == 2     \* data lines of a generated file
MaxTopN == 3     \* largest top_n asked of get_top_products
MaxLoads == 2    \* load_csv calls on one SupermarketModel object

e == <<>>
A == <<"A">>
B == <<"B">>
C == <<"C">>
F == <<"F">>
H == <<"H">>
S == <<"S">>
x == <<"x">>

FullHeader == <<"Branch", "City", "Product line", "Quantity", "Total", "Date", "Rating">>

\* data lines under FullHeader
RowA20 == <<A, C, H, <<"2">>, <<"2", "0">>, <<"1", "/", "5">>, <<"9">>>>
RowB5 == <<B, C, F, <<"1">>, <<"5">>, <<"1", "/", "6">>, <<"5", ".", "0">>>>
RowA10 == <<A, C, H, <<"1">>, <<"1", "0">>, <<"2", "/", "1">>, <<"1", "0", ".", "1">>>>
RowNoRating == <<B, C, F, <<"1">>, <<"5">>, <<"1", "/", "6">>, e>>
RowNoBranch == <<e, C, H, <<"1">>, <<"1", "0">>, <<"2", "/", "1">>, <<"7">>>>
RowNoQuantity == <<A, C, H, e, <<"1", "0">>, <<"2", "/", "1">>, <<"7">>>>
RowNoTotal == <<A, C, H, <<"1">>, e, <<"2", "/", "1">>, <<"7">>>>
RowShort == <<A, C, S>>
RowBlank == <<e>>
RowExtra == <<B, C, S, <<"1">>, <<"1", "0">>, <<"1", "0", "/", "3">>, <<"1", "0">>, x>>
RowUnparsable == <<A, C, F, x, x, <<"x", "/", "1">>, x>>
RowNoDate == <<B, C, S, <<"2">>, <<"2", "0">>, e, <<"4">>>>
RowDecimal == <<B, C, H, <<"1">>, <<"1", "0", ".", "5">>, <<"1", "2", "/", "1">>, <<"9", ".", "5">>>>
RowLeadingZero == <<A, C, H, <<"1">>, <<"1", "0">>, <<"0", "1", "/", "7">>, <<"7">>>>
RowNegative == <<B, C, F, <<"1">>, <<"-", "5">>, <<"2", "/", "9">>, <<"3", ".", "9">>>>

\* the data lines the generated files are made of (RowNoDate and RowNegative
\* occur in the longer files only)
RowPool == {RowA20, RowB5, RowA10, RowNoRating, RowNoBranch, RowNoQuantity, RowNoTotal,
            RowShort, RowBlank, RowExtra, RowUnparsable, RowDecimal}

\* s without its i-th element
Without(s, i) == [j \in 1..(Len(s) - 1) |-> IF j < i THEN s[j] ELSE s[j + 1]]

\* longer files: the three-line example with a dropped middle line, three
\* product lines with distinct sums, three product lines with two equal sums,
\* ratings on and off the bin edges, a header without Branch over a line
\* without Rating, and the month 1 written both as 1 and as 01
ScenarioFiles == {
    <<FullHeader, RowA20, RowNoRating, RowA10>>,
    <<FullHeader, RowA20, RowB5, RowExtra>>,
    <<FullHeader, RowA20, RowNoDate, RowB5>>,
    <<FullHeader, RowB5, RowExtra, RowUnparsable, RowNegative>>,
    <<Without(FullHeader, 1), Without(RowA20, 1), Without(RowNoRating, 1), Without(RowA10, 1)>>,
    <<FullHeader, RowA20, RowLeadingZero, RowB5>> }

SeqsUpTo(pool, n) == UNION {[1..k -> pool] : k \in 0..n}

FullFiles == {<<FullHeader>> \o rows : rows \in SeqsUpTo(RowPool, MaxRows)}

\* complete data lines, to be cut down to a header that lacks a column
BasePool == {r \in RowPool : Len(r) = Len(FullHeader) /\ \A i \in DOMAIN r : r[i] # e /\ r[i] # x}

AbsentFiles ==
    {<<Without(FullHeader, i)>> \o [k \in DOMAIN rows |-> Without(rows[k], i)] :
        i \in DOMAIN FullHeader, rows \in SeqsUpTo(BasePool, MaxRows)}

\* files with the Payment, Customer type and Gender columns
PayHeader == <<"Branch", "Customer type", "Gender", "Payment", "Quantity", "Total", "Rating">>

Cash    == <<"C">>
Ewallet == <<"E">>
Member  == <<"M">>
Normal  == <<"N">>
Female  == <<"F">>
Male    == <<"M">>

PayMemberCash10  == <<A, Member, Female, Cash, <<"1">>, <<"1", "0">>, <<"7">>>>
PayNormalWallet  == <<B, Normal, Male, Ewallet, <<"2">>, <<"2", "0">>, <<"9">>>>
PayMemberCash5   == <<A, Member, Male, Cash, <<"1">>, <<"5">>, <<"5", ".", "0">>>>
PayNoPayment     == <<B, Normal, Female, e, <<"1">>, <<"5">>, <<"4">>>>
PayNoTotal       == <<A, Member, Female, Cash, <<"1">>, e, <<"7">>>>
PayNoGender      == <<B, Member, e, Ewallet, <<"1">>, <<"1", "0">>, <<"7">>>>

PayPool == {PayMemberCash10, PayNormalWallet, PayMemberCash5, PayNoPayment, PayNoTotal}

PayFiles ==
    {<<PayHeader>> \o rows : rows \in SeqsUpTo(PayPool, MaxRows)}
    \cup {<<PayHeader, PayMemberCash10, PayNoTotal, PayNoPayment>>,
          <<PayHeader, PayNoGender, PayMemberCash10, PayMemberCash5>>}
    \cup {<<Without(PayHeader, i), Without(PayMemberCash10, i), Without(PayNormalWallet, i)>> :
              i \in {2, 3, 5, 7}}

\* the empty file: readlines() gives no line
EmptyFile == <<>>

Files == FullFiles \cup AbsentFiles \cup ScenarioFiles \cup PayFiles \cup {EmptyFile}

ShortHeader == <<"Branch", "Total", "Quantity", "Rating">>

\* the files loaded one after the other into the same store
ReuseFiles == {
    <<FullHeader, RowA20, RowB5>>,
    <<FullHeader, RowA20, RowNoRating, RowA10>>,
    <<FullHeader>>,
    <<ShortHeader, <<B, <<"5">>, <<"1">>, <<"7">>>>>>,
    <<ShortHeader, <<A, <<"5">>, <<"1">>, <<"7">>>>, <<B, e, <<"1">>, <<"7">>>>,
      <<B, <<"2", "0">>, <<"2">>, <<"9">>>>>>,
    <<Without(FullHeader, 2), Without(RowA10, 2)>>,
    <<Without(FullHeader, 1), Without(RowA10, 1), Without(RowB5, 1)>>,
    <<Without(FullHeader, 5), Without(RowA20, 5), Without(RowB5, 5), Without(RowA10, 5)>>,
    <<Without(FullHeader, 7), Without(RowA10, 7), Without(RowB5, 7)>>,
    EmptyFile }

ColumnNames == Range(FullHeader) \cup {"Payment"}

----------------------------------------------------------------------------
(* State machine *)

NoData == [c \in {} |-> EmptyArray]

\* model = SupermarketModel()
Construct ==
    /\ data' = NoData
    /\ headers' = <<>>
    /\ row_count' = 0
    /\ lines' = <<>>
    /\ loaded' = "none"
    /\ loads' = 0
    /\ last' = [op |-> "__init__"]

Init ==
    /\ data = NoData
    /\ headers = <<>>
    /\ row_count = 0
    /\ lines = <<>>
    /\ loaded = "none"
    /\ loads = 0
    /\ last = [op |-> "__init__"]

\* model.load_csv(file)
LoadFrom(files) ==
    \E f \in files, elementwise \in BOOLEAN :
        LET r == load_csv(data, headers, row_count, f, elementwise)
        IN  /\ data' = r.data
            /\ headers' = r.headers
            /\ row_count' = r.row_count
            /\ lines' = f
            /\ loaded' = IF r.ret THEN "ok" ELSE "failed"
            /\ loads' = loads + 1
            /\ last' = [op |-> "load_csv", ret |-> r.ret]

\* app.py: a new SupermarketModel is loaded once
Load == loads = 0 /\ LoadFrom(Files)

\* a query; app.py queries the store only after load_csv returned True
Query(op, arg, ret) ==
    /\ loaded = "ok"
    /\ last' = [op |-> op, arg |-> arg, ret |-> ret]
    /\ UNCHANGED <<data, headers, row_count, lines, loaded, loads>>

GetColumn == \E name \in ColumnNames : Query("get_column", name, get_column(data, name))

GetSummary == Query("get_summary", <<>>, get_summary(data, row_count))

GetSalesByBranch == Query("get_sales_by_branch", <<>>, get_sales_by_branch(data, headers))

GetSalesByCity == Query("get_sales_by_city", <<>>, get_sales_by_city(data, headers))

GetSalesByProductLine ==
    Query("get_sales_by_product_line", <<>>, get_sales_by_product_line(data, headers))

GetRatingDistribution == Query("get_rating_distribution", <<>>, get_rating_distribution(data))

GetMonthlySalesTrend == Query("get_monthly_sales_trend", <<>>, get_monthly_sales_trend(data))

GetTopProducts ==
    \E n \in 0..MaxTopN : Query("get_top_products", n, get_top_products(data, headers, n))

GetKpis == Query("get_kpis", <<>>, get_kpis(data))

GetPaymentMethodDistribution ==
    Query("get_payment_method_distribution", <<>>,
          get_payment_method_distribution(data, headers))

GetCustomerTypeAnalysis ==
    Query("get_customer_type_analysis", <<>>, get_customer_type_analysis(data, headers))

GetGenderAnalysis == Query("get_gender_analysis", <<>>, get_gender_analysis(data, headers))

Queries ==
    \/ GetColumn
    \/ GetSummary
    \/ GetSalesByBranch
    \/ GetSalesByCity
    \/ GetSalesByProductLine
    \/ GetRatingDistribution
    \/ GetMonthlySalesTrend
    \/ GetTopProducts
    \/ GetKpis
    \/ GetPaymentMethodDistribution
    \/ GetCustomerTypeAnalysis
    \/ GetGenderAnalysis

Next == Construct \/ Load \/ Queries

Spec == Init /\ [][Next]_vars

\* load_csv called again on a SupermarketModel that was loaded before
Reload == loads < MaxLoads /\ LoadFrom(ReuseFiles)

NextReuse == Construct \/ Reload \/ Queries

SpecReuse == Init /\ [][NextReuse]_vars

----------------------------------------------------------------------------
(* The input of the last load, read independently of the store *)

Required == {"Total", "Quantity", "Rating", "Branch"}

HeaderHas(names) == lines # <<>> /\ names \subseteq Range(lines[1])

PosOf(name) == CHOOSE i \in DOMAIN lines[1] : lines[1][i] = name

\* the field of a data line under a header name; '' when the line is short
FieldOf(row, name) == IF PosOf(name) <= Len(row) THEN row[PosOf(name)] ELSE e

RowComplete(row) == \A c \in Required \cap Range(lines[1]) : FieldOf(row, c) # e

\* the data lines with every required field non-empty, in file order
RetainedRows == SelectSeq(Tail(lines), RowComplete)

Parsable(text) == IsFloat(text)

\* what a field is stored as: text as it is, a numeric column's field as its
\* number, or 0.0 when it is not a number
Stored(text, name) ==
    IF name \in numeric_columns
    THEN IF Parsable(text) THEN FloatOf(text) ELSE 0
    ELSE text

----------------------------------------------------------------------------
(* C1 *)

\* C1: for every input whose header contains Total, Quantity, Rating and
\* Branch, the load succeeds, every column of the table holds exactly the
\* data rows whose four required fields are non-empty (a short row counts as
\* empty in its missing positions), in file order, and row_count is the
\* number of those rows.
C1_ValidityFilter ==
    (loaded # "none" /\ HeaderHas(Required)) =>
        /\ loaded = "ok"
        /\ headers = lines[1]
        /\ row_count = Len(RetainedRows)
        /\ \A c \in Range(headers) :
              data[c].vals = [k \in 1..Len(RetainedRows) |->
                                 Stored(FieldOf(RetainedRows[k], c), c)]

\* C1 witness: three data lines, the middle one without Rating is dropped and
\* the other two are kept in file order.
C1_Witness ==
    /\ loaded = "ok"
    /\ lines = <<FullHeader, RowA20, RowNoRating, RowA10>>
    /\ row_count = 2
    /\ data["Total"].vals = <<200, 100>>
    /\ data["Date"].vals = <<<<"1", "/", "5">>, <<"2", "/", "1">>>>

----------------------------------------------------------------------------
(* C2 *)

----------------------------------------------------------------------------
(* C3 *)

\* C3 for one n, given that get_sales_by_product_line returns s
TopProductsOk(s, t, n) ==
    /\ t.exc = "none"
    /\ Len(t.top_products) = Min2(n, Len(s.labels))
    /\ Len(t.top_sales) = Len(t.top_products)
    /\ \A i \in DOMAIN t.top_products :
          \E j \in DOMAIN s.labels :
              s.labels[j] = t.top_products[i] /\ s.sales[j] = t.top_sales[i]
    /\ \A i, k \in DOMAIN t.top_products :
          i # k => t.top_products[i] # t.top_products[k]
    /\ \A i \in 1..(Len(t.top_sales) - 1) : t.top_sales[i] >= t.top_sales[i + 1]
    /\ \A j \in DOMAIN s.labels :
          s.labels[j] \notin Range(t.top_products) =>
              \A i \in DOMAIN t.top_sales : s.sales[j] <= t.top_sales[i]

\* C3: get_top_products(n), n >= 0, returns min(n, number of product lines)
\* (label, sum) pairs of get_sales_by_product_line, pairwise distinct, with
\* non-increasing sums, and no product line left out has a greater sum than a
\* returned one; get_sales_by_product_line returns when the header has Total
\* and Product line.
C3_TopProducts ==
    loaded = "ok" =>
        /\ get_sales_by_product_line(data, headers).exc = "none" =>
              \A n \in 0..MaxTopN :
                  TopProductsOk(get_sales_by_product_line(data, headers),
                                get_top_products(data, headers, n), n)
        /\ HeaderHas({"Total", "Product line"}) =>
              get_sales_by_product_line(data, headers).exc = "none"

\* C3 witness: three product lines F = 5.0, H = 20.0, S = 10.0 and n = 2:
\* H and S are returned in this order, F is left out.
C3_Witness ==
    /\ last.op = "get_top_products"
    /\ last.arg = 2
    /\ last.ret.exc = "none"
    /\ get_sales_by_product_line(data, headers).labels = <<F, H, S>>
    /\ get_sales_by_product_line(data, headers).sales = <<50, 200, 100>>
    /\ last.ret.top_products = <<H, S>>
    /\ last.ret.top_sales = <<200, 100>>

----------------------------------------------------------------------------
(* C4 *)

Ratings == get_column(data, "Rating").vals

\* ratings r with lo <= r < hi
CountRightOpen(lo, hi) == Cardinality({k \in DOMAIN Ratings : lo <= Ratings[k] /\ Ratings[k] < hi})

\* C4 as stated: every bin [e, e + 0.5) of get_rating_distribution counts
\* exactly the ratings r with e <= r < e + 0.5, so that a rating outside
\* [4.0, 10.0), 10.0 included, is counted in no bin.
C4_AllBinsRightOpen ==
    loaded = "ok" =>
        /\ get_rating_distribution(data).exc = "none"
        /\ get_rating_distribution(data).bin_edges = [i \in 1..13 |-> 40 + 5 * (i - 1)]
        /\ \A i \in 1..12 :
              get_rating_distribution(data).hist[i]
                  = CountRightOpen(40 + 5 * (i - 1), 40 + 5 * i)

\* C4 amended: the bins run from 4.0 to 10.0 in steps of 0.5; every bin but
\* the last counts exactly the ratings r with e <= r < e + 0.5 (5.0 is counted
\* in [5.0, 5.5)); the last bin is closed, [9.5, 10.0], so a rating of exactly
\* 10.0 is counted in it; a rating below 4.0 (a defaulted 0.0 included) or
\* above 10.0 is counted in no bin.
C4_RatingBins ==
    loaded = "ok" =>
        /\ get_rating_distribution(data).exc = "none"
        /\ get_rating_distribution(data).bin_edges = [i \in 1..13 |-> 40 + 5 * (i - 1)]
        /\ \A i \in 1..11 :
              get_rating_distribution(data).hist[i]
                  = CountRightOpen(40 + 5 * (i - 1), 40 + 5 * i)
        /\ get_rating_distribution(data).hist[12] = CountRightOpen(95, 101)
        /\ SumSeq(get_rating_distribution(data).hist) = CountRightOpen(40, 101)

\* C4 witness: the ratings 5.0, 10, x (stored as 0.0) and 3.9: one count in
\* [5.0, 5.5), one in the last bin, none elsewhere.
C4_Witness ==
    /\ last.op = "get_rating_distribution"
    /\ Ratings = <<50, 100, 0, 39>>
    /\ last.ret.hist = <<0, 0, 1, 0, 0, 0, 0, 0, 0, 0, 0, 1>>

----------------------------------------------------------------------------
(* C5 *)

\* C5: get_summary on a zero-row table whose header has the columns it reads
\* (Total, Quantity, Rating) returns, with total_rows = 0, total_sales = 0,
\* total_quantity = 0 and average_rating NaN.
C5_SummaryZeroRows ==
    (loaded = "ok" /\ row_count = 0 /\ HeaderHas({"Total", "Quantity", "Rating"})) =>
        /\ get_summary(data, row_count).exc = "none"
        /\ get_summary(data, row_count).total_rows = 0
        /\ get_summary(data, row_count).total_sales = 0
        /\ get_summary(data, row_count).total_quantity = 0
        /\ get_summary(data, row_count).average_rating = NaN

\* C5 witness: get_summary was called on a table whose two data lines were
\* both dropped, and returned a NaN average rating.
C5_Witness ==
    /\ last.op = "get_summary"
    /\ Len(lines) = 3
    /\ HeaderHas(Required)
    /\ row_count = 0
    /\ last.ret.exc = "none"
    /\ last.ret.total_sales = 0
    /\ last.ret.average_rating.nan

----------------------------------------------------------------------------
(* C6 *)

\* the columns of the fixed column set that the modelled queries read
FixedColumns == Range(FullHeader)

Returned(r) == r.exc = "none"

\* C6: when a column of the fixed column set is absent from the header, the
\* load succeeds, get_column on the absent column is empty, and get_summary,
\* the get_sales_by_* queries and get_kpis return instead of raising (stated
\* for tables that kept at least one row).
C6_AbsentColumnTolerated ==
    (loaded # "none" /\ lines # <<>> /\ \E c \in FixedColumns : c \notin Range(lines[1])) =>
        /\ loaded = "ok"
        /\ \A c \in FixedColumns \ Range(lines[1]) : get_column(data, c).vals = <<>>
        /\ row_count > 0 =>
              /\ Returned(get_summary(data, row_count))
              /\ Returned(get_sales_by_branch(data, headers))
              /\ Returned(get_sales_by_city(data, headers))
              /\ Returned(get_sales_by_product_line(data, headers))
              /\ Returned(get_kpis(data))

----------------------------------------------------------------------------
(* C7 *)

TokenIsMonth(row) == IsInt(FirstToken(FieldOf(row, "Date")))

RECURSIVE TotalOf(_)
\* the sum of the stored Total of the given data lines
TotalOf(rows) ==
    IF rows = <<>> THEN 0
    ELSE Stored(FieldOf(rows[1], "Total"), "Total") + TotalOf(Tail(rows))

\* C7: a row whose first '/'-delimited Date token is not an integer is
\* skipped by get_monthly_sales_trend: the call returns, and its values are
\* those of the rows with an integer token (they add up to the Total of these
\* rows), while get_summary's total_sales still includes the row.
C7_UnparsableDateSkipped ==
    (loaded = "ok" /\ HeaderHas(Required \cup {"Date"})) =>
        /\ Returned(get_monthly_sales_trend(data))
        /\ SumSeq(get_monthly_sales_trend(data).sales)
              = TotalOf(SelectSeq(RetainedRows, TokenIsMonth))
        /\ get_summary(data, row_count).total_sales = TotalOf(RetainedRows)

----------------------------------------------------------------------------
(* C8 *)

\* C8: load_csv fails only on a file without a header line; a data line whose
\* required fields are non-empty is retained whether or not its numeric
\* fields are numbers; a numeric field that is not a number is stored as 0.0
\* and one that is a number is stored as that number.
C8_CoercionNeverFails ==
    loaded # "none" =>
        /\ loaded = "failed" <=> lines = <<>>
        /\ loaded = "ok" =>
              /\ row_count = Len(RetainedRows)
              /\ \A c \in Range(headers) \cap numeric_columns :
                    /\ data[c].dtype = "float"
                    /\ Len(data[c].vals) = Len(RetainedRows)
                    /\ \A k \in 1..Len(RetainedRows) :
                          LET text == FieldOf(RetainedRows[k], c)
                          IN  IF Parsable(text)
                              THEN data[c].vals[k] = FloatOf(text)
                              ELSE data[c].vals[k] = 0

\* C8 witness: a line whose Quantity, Total and Rating are all 'x' is kept
\* and stored as 0.0 next to a line with Total 10.5 stored as 10.5.
C8_Witness ==
    /\ loaded = "ok"
    /\ lines = <<FullHeader, RowUnparsable, RowDecimal>>
    /\ row_count = 2
    /\ data["Total"].vals = <<0, 105>>
    /\ data["Quantity"].vals = <<0, 10>>
    /\ data["Rating"].vals = <<0, 95>>

----------------------------------------------------------------------------
(* C10 *)

\* C10: get_kpis on a zero-row table returns, with total_revenue,
\* total_items_sold and total_transactions 0 and NaN averages.
C10_KpisZeroRows ==
    (loaded = "ok" /\ row_count = 0 /\ HeaderHas({"Total", "Quantity", "Rating"})) =>
        /\ Returned(get_kpis(data))
        /\ get_kpis(data).total_revenue = 0
        /\ get_kpis(data).total_items_sold = 0
        /\ get_kpis(data).total_transactions = 0
        /\ get_kpis(data).average_transaction = NaN
        /\ get_kpis(data).average_rating = NaN

----------------------------------------------------------------------------
(* C9 *)

\* the same file loaded into a new SupermarketModel
FreshLoad == load_csv(NoData, <<>>, 0, lines, TRUE)

\* C9: after any sequence of loads into one store, the outcome of the last
\* load (of a file with a header line) is the outcome of loading its file
\* into a new store: the same return value, column names and row_count, and
\* get_column gives the same column for every name.
C9_LoadIndependent ==
    (loads > 0 /\ lines # <<>>) =>
        /\ (loaded = "ok") = FreshLoad.ret
        /\ headers = FreshLoad.headers
        /\ row_count = FreshLoad.row_count
        /\ \A name \in ColumnNames :
              get_column(data, name) = get_column(FreshLoad.data, name)

----------------------------------------------------------------------------
(* C11 *)

\* C11 as stated: a required column that is absent from the header makes
\* every row invalid, so that no row is retained and row_count is 0.
C11_AbsentRequiredDropsAll ==
    (loaded = "ok" /\ ~HeaderHas(Required)) => row_count = 0

\* C11 amended: a row is valid iff each of the columns Total, Quantity, Rating
\* and Branch that is present in the header is non-empty in that row; a
\* required column absent from the header is not checked, so that for a header
\* that lacks one of them the rows whose other required fields are non-empty
\* are retained, in file order, and row_count is their number.
C11_ValidityOverPresentColumns ==
    (loaded # "none" /\ lines # <<>> /\ ~HeaderHas(Required)) =>
        /\ loaded = "ok"
        /\ row_count = Len(RetainedRows)
        /\ \A c \in Range(headers) :
              data[c].vals = [k \in 1..Len(RetainedRows) |->
                                 Stored(FieldOf(RetainedRows[k], c), c)]

\* C11 witness: the header has no Branch column; of three data lines the one
\* without Rating is dropped and the other two are retained.
C11_Witness ==
    /\ loaded = "ok"
    /\ "Branch" \notin Range(headers)
    /\ Len(lines) = 4
    /\ row_count = 2
    /\ data["Total"].vals = <<200, 100>>

----------------------------------------------------------------------------
(* C12 *)

\* position of a product line in the list get_sales_by_product_line returns
IndexIn(labels, l) == CHOOSE j \in DOMAIN labels : labels[j] = l

\* the tie rule of C12 for one top_n
TiesAscending(n) ==
    LET s == get_sales_by_product_line(data, headers)
        r == get_top_products(data, headers, n)
        k == Len(r.top_products)
    IN  (s.exc = "none" /\ r.exc = "none") =>
            /\ \A i, j \in 1..k :
                  (i < j /\ r.top_sales[i] = r.top_sales[j]) =>
                      IndexIn(s.labels, r.top_products[i])
                          < IndexIn(s.labels, r.top_products[j])
            /\ \A i \in 1..k : \A j \in DOMAIN s.labels :
                  (s.labels[j] \notin Range(r.top_products)
                       /\ s.sales[j] = r.top_sales[i]) =>
                      IndexIn(s.labels, r.top_products[i]) < j

\* C12: in get_top_products(top_n), product lines with equal sum(Total) appear
\* in their ascending unique-value order, the order in which
\* get_sales_by_product_line lists them, and when a tie straddles the cut at
\* top_n the earlier product line in that order is the one returned.
C12_TiesInUniqueOrder ==
    (loaded = "ok" /\ HeaderHas({"Product line", "Total"})) =>
        \A n \in 0..MaxTopN : TiesAscending(n)

----------------------------------------------------------------------------
(* C13 *)

\* the integer month a data line's Date denotes
MonthOf(row) == IntOf(FirstToken(FieldOf(row, "Date")))

RECURSIVE Ascending(_)
\* the elements of a set of integers in ascending order
Ascending(ms) ==
    IF ms = {} THEN <<>>
    ELSE LET m == CHOOSE p \in ms : \A q \in ms : p <= q
         IN  <<m>> \o Ascending(ms \ {m})

RECURSIVE Decimal(_)
\* the decimal numeral of a natural number
Decimal(n) ==
    LET digit == <<"0", "1", "2", "3", "4", "5", "6", "7", "8", "9">>[(n % 10) + 1]
    IN  IF n < 10 THEN <<digit>> ELSE Append(Decimal(n \div 10), digit)

\* the label C13 gives the integer month m
LabelOfMonth(m) ==
    IF m \in 1..12 THEN [named |-> TRUE, name |-> month_map[Decimal(m)]]
    ELSE [named |-> FALSE,
          key |-> IF m < 0 THEN <<"-">> \o Decimal(-m) ELSE Decimal(m)]

\* C13, on the tables whose retained Date tokens are all integers (the others
\* are the subject of C7): get_monthly_sales_trend has exactly one entry per
\* integer month occurring in the table, in numerically ascending month order;
\* each value is the sum of Total over all rows of that month; months 1..12
\* are labelled January..December and any other month by its numeric string;
\* the values sum to get_summary's total_sales.
C13_OneEntryPerIntegerMonth ==
    LET rows   == RetainedRows
        r      == get_monthly_sales_trend(data)
        months == Ascending({MonthOf(rows[i]) : i \in DOMAIN rows})
        InMonth(m) == LET Test(row) == MonthOf(row) = m
                      IN  SelectSeq(rows, Test)
    IN  (/\ loaded = "ok"
         /\ HeaderHas(Required \cup {"Date"})
         /\ \A i \in DOMAIN rows : TokenIsMonth(rows[i])) =>
            /\ r.exc = "none"
            /\ r.month_names = [i \in DOMAIN months |-> LabelOfMonth(months[i])]
            /\ r.sales = [i \in DOMAIN months |-> TotalOf(InMonth(months[i]))]
            /\ SumSeq(r.sales) = get_summary(data, row_count).total_sales

----------------------------------------------------------------------------
(* C14 *)

\* filter_by_value(column_name, value) returns the header's columns, all of
\* one length
FilterShapeOk(column_name, value) ==
    LET f == filter_by_value(data, headers, column_name, value)
    IN  /\ f.exc = "none"
        /\ DOMAIN f.data = Range(headers)
        /\ \A c1, c2 \in DOMAIN f.data :
              Len(f.data[c1].vals) = Len(f.data[c2].vals)

\* C14: after every successful load, including a load into a store that was
\* loaded before, every column held by the store has exactly row_count
\* elements, the column names are those of the header in header order, and a
\* filter_by_value result has the same column names with equal-length columns.
C14_TableInvariant ==
    loaded = "ok" =>
        /\ \A c \in DOMAIN data : Len(data[c].vals) = row_count
        /\ headers = lines[1]
        /\ DOMAIN data = Range(headers)
        /\ \A c \in Range(headers) : \A v \in Range(data[c].vals) :
              FilterShapeOk(c, v)

----------------------------------------------------------------------------
(* C15 *)

\* C15: for every loaded table that has the Total and Payment columns and at
\* least one row, the counts of get_payment_method_distribution sum to
\* row_count, the counts of get_customer_type_analysis and of
\* get_gender_analysis each sum to row_count when their column is in the
\* header, and get_kpis' total_transactions is row_count, the total_rows that
\* get_summary reports (get_summary returns when Rating and Quantity are in
\* the header too).
C15_CountConsistency ==
    LET p  == get_payment_method_distribution(data, headers)
        ct == get_customer_type_analysis(data, headers)
        g  == get_gender_analysis(data, headers)
        k  == get_kpis(data)
        sm == get_summary(data, row_count)
    IN  (loaded = "ok" /\ HeaderHas({"Total", "Payment"}) /\ row_count >= 1) =>
            /\ p.exc = "none" /\ SumSeq(p.counts) = row_count
            /\ HeaderHas({"Customer type"}) =>
                  (ct.exc = "none" /\ SumSeq(ct.counts) = row_count)
            /\ HeaderHas({"Gender"}) =>
                  (g.exc = "none" /\ SumSeq(g.counts) = row_count)
            /\ k.exc = "none" /\ k.total_transactions = row_count
            /\ HeaderHas({"Rating", "Quantity"}) => Returned(sm)
            /\ Returned(sm) => sm.total_rows = k.total_transactions

\* C15 witness: of three data lines the one without Total is dropped; the two
\* retained differ in Payment (one of them empty), and
\* get_payment_method_distribution has counted one row for each.
C15_Witness ==
    /\ loaded = "ok"
    /\ headers = PayHeader
    /\ Len(lines) = 4
    /\ row_count = 2
    /\ last.op = "get_payment_method_distribution"
    /\ last.ret.exc = "none"
    /\ last.ret.methods = <<e, Cash>>
    /\ last.ret.counts = <<1, 1>>
    /\ SumSeq(get_gender_analysis(data, headers).counts) = 2

====
